---- MODULE Spec2Model ----
(***************************************************************************)
(* Model of internal/app/commands/config.go: the config-set file of the   *)
(* reticule CLI and the three commands that rewrite it (config create,     *)
(* config delete, config update).                                          *)
(*                                                                         *)
(* The file is a sequence of written pieces: a piece is one whole YAML     *)
(* document (the encoding of a reticuleConfigSet) or the fragment a failed *)
(* write left behind.  A handle opened without O_TRUNC writes at its       *)
(* offset, so what is written after a ReadAll lands behind what was read.  *)
(***************************************************************************)
EXTENDS Integers, Sequences, FiniteSets, TLC

VARIABLES
    fsFault,    \* the step of the injected afero.Fs that fails ("none": a sound fs)
    disk,       \* the config directory and file
    pre,        \* disk as it was when the last command started
    last,       \* the last command: its arguments and what it returned
    nCmds,      \* commands run so far
    race        \* two invocations running at once: where each is, and the order of their loads and saves

vars == <<fsFault, disk, pre, last, nCmds, race>>

-----------------------------------------------------------------------------
(* Bounds *)

\* commands run against the file in one behaviour
MaxCmds == 1

\* profiles in a config file that exists before the first command
MaxStored == 2

Names == {"alice", "bob", "carol"}

-----------------------------------------------------------------------------
(* Values *)

URLString(u) == u.Scheme \o "://" \o u.Host

NewAuth(key, passphrase, secret) ==
    [Key |-> key, Passphrase |-> passphrase, Secret |-> secret]

ZeroCfg ==
    [BaseURL |-> "", FeedURL |-> "", Auth |-> NewAuth("", "", ""),
     ServerIP |-> "", ServerPort |-> 0, ServerSecret |-> ""]

EmptyMap == [n \in {} |-> ZeroCfg]

\* reticuleConfigSet{}: Configs is the nil map
ZeroConfigSet == [Current |-> "", Configs |-> EmptyMap, IsNil |-> TRUE]

MapSet(m, k, v) == [n \in (DOMAIN m) \cup {k} |-> IF n = k THEN v ELSE m[n]]

MapDelete(m, k) == [n \in (DOMAIN m) \ {k} |-> m[n]]

-----------------------------------------------------------------------------
(* Codec: yaml.v3 on reticuleConfigSet *)

\* One document.  A nil map and an empty map both encode as "configs: {}".
Encode(cs) == [torn |-> FALSE, Current |-> cs.Current, Configs |-> cs.Configs]

\* What a write that failed part-way leaves in the file.
Fragment == [torn |-> TRUE, Current |-> "", Configs |-> EmptyMap]

\* yaml.Unmarshal of the whole file content into a zero reticuleConfigSet.
\* No bytes leave the zero value; one document decodes to its value with a
\* made map; anything else (a fragment, or a second document, whose keys
\* repeat the first's) is a decode error.
Decode(content) ==
    IF Len(content) = 0
    THEN [err |-> "nil", cs |-> ZeroConfigSet]
    ELSE IF Len(content) = 1 /\ ~content[1].torn
    THEN [err |-> "nil",
          cs |-> [Current |-> content[1].Current,
                  Configs |-> content[1].Configs,
                  IsNil |-> FALSE]]
    ELSE [err |-> "ErrFormat", cs |-> ZeroConfigSet]

\* coinbasepro.Capture(&capture, err): the first error stands.
Capture(capture, err) == IF capture = "nil" THEN err ELSE capture

-----------------------------------------------------------------------------
(* Disk *)

NoDisk == [dir |-> FALSE, exists |-> FALSE, content |-> <<>>]

\* The steps of a command that the injected filesystem can fail.
Steps ==
    {"home", "open", "mkdir", "create", "read", "wopen",
     "encode", "partial", "encclose", "close"}

\* The filesystems a command is run on: sound, failing one step, or failing
\* a step of the save and the Close of the file as well.
FaultSets ==
    {{}} \cup {{s} : s \in Steps}
         \cup {{s, "close"} : s \in {"wopen", "encode", "partial", "encclose"}}

\* yaml Encoder.Encode followed by Encoder.Close on a handle positioned at
\* the end of `content`: what the file holds afterwards and the error.
\* A failed Encode has written nothing ("encode") or a part ("partial").
EncodeTo(content, cs, flt) ==
    IF "encode" \in flt
    THEN [err |-> "ErrEncode", content |-> content]
    ELSE IF "partial" \in flt
    THEN [err |-> "ErrEncode", content |-> Append(content, Fragment)]
    ELSE IF "encclose" \in flt
    THEN [err |-> "ErrEncode", content |-> Append(content, Encode(cs))]
    ELSE [err |-> "nil", content |-> Append(content, Encode(cs))]

\* f.Close() on the injected filesystem
CloseErr(flt) == IF "close" \in flt THEN "ErrClose" ELSE "nil"

\* What a command hands back: its error, the disk it leaves, the handles it
\* opened and closed, and the config set it held in memory at the end.
Ret(err, d, opened, closed, mem) ==
    [err |-> err, disk |-> d, opened |-> opened, closed |-> closed, mem |-> mem]

-----------------------------------------------------------------------------
(* ConfigSet repository *)

\* a load that takes a missing file for an empty config set
ReadConfigSet_MissingIsEmpty(d, flt) ==
    IF "open" \in flt
    THEN [err |-> "ErrIO", cs |-> ZeroConfigSet, opened |-> 0]
    ELSE IF ~d.exists
    THEN [err |-> "nil", cs |-> ZeroConfigSet, opened |-> 0]
    ELSE IF "read" \in flt
    THEN [err |-> "ErrIO", cs |-> ZeroConfigSet, opened |-> 1]
    ELSE [err |-> Decode(d.content).err, cs |-> Decode(d.content).cs, opened |-> 1]

\* readConfigSet
ReadConfigSet(d, flt) ==
    IF "open" \in flt
    THEN [err |-> "ErrIO", cs |-> ZeroConfigSet, opened |-> 0]
    ELSE IF ~d.exists
    THEN [err |-> "ErrNotExist", cs |-> ZeroConfigSet, opened |-> 0]
    ELSE IF "read" \in flt
    THEN [err |-> "ErrIO", cs |-> ZeroConfigSet, opened |-> 1]
    ELSE [err |-> Decode(d.content).err, cs |-> Decode(d.content).cs, opened |-> 1]

\* a save whose deferred Close overwrites the error being returned
WriteConfigSet_CloseWins(d, cs, flt) ==
    IF "wopen" \in flt
    THEN Ret("ErrOpen", d, 0, 0, cs)
    ELSE IF ~d.exists
    THEN Ret("ErrNotExist", d, 0, 0, cs)
    ELSE LET w == EncodeTo(<<>>, cs, flt)
         IN Ret(IF CloseErr(flt) # "nil" THEN CloseErr(flt) ELSE w.err,
                [d EXCEPT !.content = w.content], 1, 1, cs)

\* a save that opens without O_TRUNC and writes behind what the file holds
WriteConfigSet_NoTrunc(d, cs, flt) ==
    IF "wopen" \in flt
    THEN Ret("ErrOpen", d, 0, 0, cs)
    ELSE IF ~d.exists
    THEN Ret("ErrNotExist", d, 0, 0, cs)
    ELSE LET w == EncodeTo(d.content, cs, flt)
         IN Ret(Capture(w.err, CloseErr(flt)),
                [d EXCEPT !.content = w.content], 1, 1, cs)

\* writeConfigSet: O_WRONLY|O_TRUNC empties the file at open; the deferred
\* Close is captured into the returned error.
WriteConfigSet(d, cs, flt) ==
    IF "wopen" \in flt
    THEN Ret("ErrOpen", d, 0, 0, cs)
    ELSE IF ~d.exists
    THEN Ret("ErrNotExist", d, 0, 0, cs)
    ELSE LET w == EncodeTo(<<>>, cs, flt)
         IN Ret(Capture(w.err, CloseErr(flt)),
                [d EXCEPT !.content = w.content], 1, 1, cs)

-----------------------------------------------------------------------------
(* config create *)

\* a create that never looks the name up
CreateConflict_Never(cs, name) == FALSE

\* the lookup that refuses an existing name
CreateConflict(cs, name) == name \in DOMAIN cs.Configs

\* the reticuleConfig built from the flags
CreateCfg(c) ==
    [BaseURL |-> URLString(c.BaseURL),
     FeedURL |-> URLString(c.FeedURL),
     Auth |-> NewAuth(c.Key, c.Passphrase, c.Secret),
     ServerIP |-> c.BindAddress,
     ServerPort |-> c.ServerPort,
     ServerSecret |-> c.ServerAuth]

\* a nil map is made and Current set; --use sets Current; the entry is stored
CreateInsert(cs, c) ==
    LET made == IF cs.IsNil
                THEN [Current |-> c.Name, Configs |-> EmptyMap, IsNil |-> FALSE]
                ELSE cs
        used == IF c.Use THEN [made EXCEPT !.Current = c.Name] ELSE made
    IN  [used EXCEPT !.Configs = MapSet(used.Configs, c.Name, CreateCfg(c))]

\* The encoder writes to the handle the file was read from: at the offset
\* ReadAll left, which is the end of what the file held.
CreateWrite(content, cs, flt) == EncodeTo(content, cs, flt)

\* createReticuleConfigCmd.Run
CreateRun(c, d, flt) ==
    IF "home" \in flt THEN Ret("ErrHome", d, 0, 0, ZeroConfigSet)
    ELSE IF "open" \in flt THEN Ret("ErrIO", d, 0, 0, ZeroConfigSet)
    ELSE IF ~d.dir
    THEN \* os.ErrNotExist: make the directory and the file; no deferred Close
         IF "mkdir" \in flt THEN Ret("ErrIO", d, 0, 0, ZeroConfigSet)
         ELSE IF "create" \in flt
         THEN Ret("ErrIO", [d EXCEPT !.dir = TRUE], 0, 0, ZeroConfigSet)
         ELSE LET cs == CreateInsert(ZeroConfigSet, c)
                  w == CreateWrite(<<>>, cs, flt)
              IN  Ret(w.err,
                      [dir |-> TRUE, exists |-> TRUE, content |-> w.content],
                      1, 0, cs)
    ELSE \* the file is there, or O_CREATE has just made it empty
         LET o == [d EXCEPT !.exists = TRUE]
             dec == Decode(o.content)
         IN  IF "read" \in flt
             THEN Ret(Capture("ErrIO", CloseErr(flt)), o, 1, 1, ZeroConfigSet)
             ELSE IF dec.err # "nil"
             THEN Ret(Capture(dec.err, CloseErr(flt)), o, 1, 1, ZeroConfigSet)
             ELSE IF CreateConflict(dec.cs, c.Name)
             THEN Ret(Capture("ErrAlreadyExists", CloseErr(flt)), o, 1, 1, dec.cs)
             ELSE LET cs == CreateInsert(dec.cs, c)
                      w == CreateWrite(o.content, cs, flt)
                  IN  Ret(Capture(w.err, CloseErr(flt)),
                          [o EXCEPT !.content = w.content], 1, 1, cs)

-----------------------------------------------------------------------------
(* config delete *)

\* a delete that also clears Current when it names the deleted profile
DeleteApply_ClearCurrent(cs, name) ==
    [Current |-> IF cs.Current = name THEN "" ELSE cs.Current,
     Configs |-> MapDelete(cs.Configs, name),
     IsNil |-> cs.IsNil]

\* a delete that clears a Current that names no remaining profile
DeleteApply_ClearDangling(cs, name) ==
    [Current |-> IF cs.Current \in (DOMAIN cs.Configs) \ {name}
                 THEN cs.Current ELSE "",
     Configs |-> MapDelete(cs.Configs, name),
     IsNil |-> cs.IsNil]

\* delete(configSet.Configs, d.Name): a no-op on an absent key and on a nil map
DeleteApply(cs, name) == [cs EXCEPT !.Configs = MapDelete(cs.Configs, name)]

\* deleteReticuleConfigCmd.Run
DeleteRun(c, d, flt) ==
    IF "home" \in flt THEN Ret("ErrHome", d, 0, 0, ZeroConfigSet)
    ELSE LET r == ReadConfigSet(d, flt)
         IN  IF r.err # "nil"
             THEN Ret(r.err, d, r.opened, r.opened, ZeroConfigSet)
             ELSE LET w == WriteConfigSet(d, DeleteApply(r.cs, c.Name), flt)
                  IN  Ret(w.err, w.disk, 1 + w.opened, 1 + w.closed, w.mem)

-----------------------------------------------------------------------------
(* config update *)

\* a lookup whose ok is ignored: an absent name reads as the zero config
UpdateLookup_Upsert(cs, name) ==
    IF name \in DOMAIN cs.Configs
    THEN [ok |-> TRUE, cfg |-> cs.Configs[name]]
    ELSE [ok |-> TRUE, cfg |-> ZeroCfg]

\* cfg, ok := configSet.Configs[c.Name]
UpdateLookup(cs, name) ==
    IF name \in DOMAIN cs.Configs
    THEN [ok |-> TRUE, cfg |-> cs.Configs[name]]
    ELSE [ok |-> FALSE, cfg |-> ZeroCfg]

\* an update that replaces the profile by the flags, set or not
UpdatePatch_FullReplace(cfg, c) ==
    [BaseURL |-> IF c.BaseURL # <<>> THEN URLString(c.BaseURL[1]) ELSE "",
     FeedURL |-> IF c.FeedURL # <<>> THEN URLString(c.FeedURL[1]) ELSE "",
     Auth |-> NewAuth(c.Key, c.Passphrase, c.Secret),
     ServerIP |-> c.BindAddress,
     ServerPort |-> c.ServerPort,
     ServerSecret |-> c.ServerAuth]

\* the field-by-field patch: a flag left at its zero value changes nothing
UpdatePatch(cfg, c) ==
    [BaseURL |-> IF c.BaseURL # <<>> THEN URLString(c.BaseURL[1]) ELSE cfg.BaseURL,
     FeedURL |-> IF c.FeedURL # <<>> THEN URLString(c.FeedURL[1]) ELSE cfg.FeedURL,
     Auth |-> [Key |-> IF c.Key # "" THEN c.Key ELSE cfg.Auth.Key,
               Passphrase |-> IF c.Passphrase # ""
                              THEN c.Passphrase ELSE cfg.Auth.Passphrase,
               Secret |-> IF c.Secret # "" THEN c.Secret ELSE cfg.Auth.Secret],
     ServerIP |-> IF c.BindAddress # "" THEN c.BindAddress ELSE cfg.ServerIP,
     ServerPort |-> IF c.ServerPort # 0 THEN c.ServerPort ELSE cfg.ServerPort,
     ServerSecret |-> IF c.ServerAuth # "" THEN c.ServerAuth ELSE cfg.ServerSecret]

\* a rename that leaves the old entry in the map
UpdateRename_KeepOld(cs, c) ==
    IF c.Rename # ""
    THEN [cs |-> cs, name |-> c.Rename]
    ELSE [cs |-> cs, name |-> c.Name]

\* a rename that is dropped when the new name is already a key
UpdateRename_NoClobber(cs, c) ==
    IF c.Rename # "" /\ c.Rename \notin DOMAIN cs.Configs
    THEN [cs |-> [cs EXCEPT !.Configs = MapDelete(cs.Configs, c.Name)],
          name |-> c.Rename]
    ELSE [cs |-> cs, name |-> c.Name]

\* --rename: the old entry is deleted and the new name is the key from here on
UpdateRename(cs, c) ==
    IF c.Rename # ""
    THEN [cs |-> [cs EXCEPT !.Configs = MapDelete(cs.Configs, c.Name)],
          name |-> c.Rename]
    ELSE [cs |-> cs, name |-> c.Name]

\* a --use step that also repoints a Current the rename left without a profile
UpdateUse_FollowRename(cs, name, use) ==
    IF use \/ cs.Current \notin DOMAIN cs.Configs
    THEN [cs EXCEPT !.Current = name]
    ELSE cs

\* --use: Current becomes the (possibly new) name
UpdateUse(cs, name, use) == IF use THEN [cs EXCEPT !.Current = name] ELSE cs

\* the config set Update writes back
UpdateApply(cs, c) ==
    LET rn == UpdateRename(cs, c)
        u == UpdateUse(rn.cs, rn.name, c.Use)
    IN  [u EXCEPT !.Configs =
            MapSet(u.Configs, rn.name, UpdatePatch(UpdateLookup(cs, c.Name).cfg, c))]

\* updateReticuleConfigCmd.Run
UpdateRun(c, d, flt) ==
    IF "home" \in flt THEN Ret("ErrHome", d, 0, 0, ZeroConfigSet)
    ELSE LET r == ReadConfigSet(d, flt)
         IN  IF r.err # "nil"
             THEN Ret(r.err, d, r.opened, r.opened, ZeroConfigSet)
             ELSE IF ~UpdateLookup(r.cs, c.Name).ok
             THEN Ret("ErrDoesNotExist", d, 1, 1, r.cs)
             ELSE LET w == WriteConfigSet(d, UpdateApply(r.cs, c), flt)
                  IN  Ret(w.err, w.disk, 1 + w.opened, 1 + w.closed, w.mem)

-----------------------------------------------------------------------------
(* Inputs *)

SandboxAPI == [Scheme |-> "https", Host |-> "api-public.sandbox.pro.coinbase.com"]

SandboxFeed == [Scheme |-> "wss", Host |-> "ws-feed-public.sandbox.pro.coinbase.com"]

\* config create reticule --name n [--use] --key K1 --passphrase P1 --secret S1,
\* the other flags at their defaults
CreateCmd(n, use) ==
    [Name |-> n, BaseURL |-> SandboxAPI, FeedURL |-> SandboxFeed,
     Key |-> "K1", Passphrase |-> "P1", Secret |-> "S1", Use |-> use,
     ServerPort |-> 80, BindAddress |-> "127.0.0.1", ServerAuth |-> "default"]

CreateCmds == {CreateCmd(n, use) : n \in Names, use \in BOOLEAN}

DeleteCmds == {[Name |-> n] : n \in Names}

Fields ==
    {"BaseURL", "FeedURL", "Key", "Passphrase", "Secret",
     "ServerPort", "BindAddress", "ServerAuth"}

\* the sets of flags an update supplies: none, any one, all
PatchSets == {{}} \cup {{f} : f \in Fields} \cup {Fields}

\* config update reticule --name n [--rename r] [--use] with the flags of S
UpdateCmd(n, r, use, S) ==
    [Name |-> n, Rename |-> r, Use |-> use,
     BaseURL |-> IF "BaseURL" \in S
                 THEN <<[Scheme |-> "https", Host |-> "api.pro.coinbase.com"]>>
                 ELSE <<>>,
     FeedURL |-> IF "FeedURL" \in S
                 THEN <<[Scheme |-> "wss", Host |-> "ws-feed.pro.coinbase.com"]>>
                 ELSE <<>>,
     Key |-> IF "Key" \in S THEN "K2" ELSE "",
     Passphrase |-> IF "Passphrase" \in S THEN "P2" ELSE "",
     Secret |-> IF "Secret" \in S THEN "S2" ELSE "",
     ServerPort |-> IF "ServerPort" \in S THEN 8080 ELSE 0,
     BindAddress |-> IF "BindAddress" \in S THEN "0.0.0.0" ELSE "",
     ServerAuth |-> IF "ServerAuth" \in S THEN "psk" ELSE ""]

UpdateCmds ==
    {UpdateCmd(n, r, use, S) :
        n \in Names, r \in {""} \cup Names, use \in BOOLEAN, S \in PatchSets}

\* a profile an earlier run stored under name n
StoredCfg(n) ==
    [BaseURL |-> "https://" \o n \o ".example",
     FeedURL |-> "wss://" \o n \o ".example",
     Auth |-> NewAuth("key-" \o n, "pass-" \o n, "secret-" \o n),
     ServerIP |-> "10.0.0.1", ServerPort |-> 443, ServerSecret |-> "ss-" \o n]

\* The config sets earlier runs leave in the file: some profiles, and a
\* current name that a delete may have left without its profile.
StoredSets ==
    {[Current |-> cur, Configs |-> [n \in S |-> StoredCfg(n)], IsNil |-> FALSE] :
        <<S, cur>> \in {sc \in (SUBSET Names) \X Names :
                          Cardinality(sc[1]) <= MaxStored}}

\* What earlier runs leave on disk: nothing; the directory alone (fs.Create
\* failed); an empty file (O_CREATE, or O_TRUNC, and then a failure); a
\* fragment (a write that failed part-way); one whole document.
InitDisks ==
    {NoDisk,
     [dir |-> TRUE, exists |-> FALSE, content |-> <<>>],
     [dir |-> TRUE, exists |-> TRUE, content |-> <<>>],
     [dir |-> TRUE, exists |-> TRUE, content |-> <<Fragment>>]} \cup
    {[dir |-> TRUE, exists |-> TRUE, content |-> <<Encode(cs)>>] : cs \in StoredSets}

-----------------------------------------------------------------------------
(* Specification *)

NoCmd ==
    [op |-> "none", name |-> "", cmd |-> [Name |-> ""], err |-> "nil",
     opened |-> 0, closed |-> 0, mem |-> ZeroConfigSet]

\* the invocations of a race
Procs == {"p", "q"}

\* no invocation has started
NoRace ==
    [proc |-> [p \in Procs |->
                  [pc |-> "start", op |-> "none", cmd |-> [Name |-> ""],
                   mem |-> ZeroConfigSet]],
     log |-> <<>>]

Init ==
    /\ fsFault \in FaultSets
    /\ disk \in InitDisks
    /\ pre = disk
    /\ last = NoCmd
    /\ nCmds = 0
    /\ race = NoRace

Ran(op, c, r) ==
    /\ disk' = r.disk
    /\ pre' = disk
    /\ last' = [op |-> op, name |-> c.Name, cmd |-> c, err |-> r.err,
                opened |-> r.opened, closed |-> r.closed, mem |-> r.mem]
    /\ nCmds' = nCmds + 1
    /\ UNCHANGED <<fsFault, race>>

Create ==
    /\ nCmds < MaxCmds
    /\ \E c \in CreateCmds : Ran("create", c, CreateRun(c, disk, fsFault))

Delete ==
    /\ nCmds < MaxCmds
    /\ \E c \in DeleteCmds : Ran("delete", c, DeleteRun(c, disk, fsFault))

Update ==
    /\ nCmds < MaxCmds
    /\ \E c \in UpdateCmds : Ran("update", c, UpdateRun(c, disk, fsFault))

Next == Create \/ Delete \/ Update

Spec == Init /\ [][Next]_vars

-----------------------------------------------------------------------------
(* Two invocations at once *)

\* Two processes run Update or Delete on the same file, on a sound
\* filesystem.  Nothing locks the file, so each is a load (readConfigSet,
\* then the change in its own memory) and, later, a save (writeConfigSet).

\* the commands raced: any delete; any update with no flag or with --key
RaceCmds ==
    {[op |-> "delete", cmd |-> c] : c \in DeleteCmds} \cup
    {[op |-> "update", cmd |-> UpdateCmd(n, r, use, S)] :
        n \in Names, r \in {""} \cup Names, use \in BOOLEAN, S \in {{}, {"Key"}}}

\* what the command makes of the config set it loaded
Applied(rc, cs) ==
    IF rc.op = "delete" THEN DeleteApply(cs, rc.cmd.Name) ELSE UpdateApply(cs, rc.cmd)

\* the command returns before its save: the load failed, or the update did
\* not find its name
Refused(rc, r) ==
    \/ r.err # "nil"
    \/ (rc.op = "update" /\ ~UpdateLookup(r.cs, rc.cmd.Name).ok)

RaceLoad(p) ==
    /\ race.proc[p].pc = "start"
    /\ \E rc \in RaceCmds :
          LET r == ReadConfigSet(disk, fsFault)
          IN  race' = [proc |-> [race.proc EXCEPT ![p] =
                          [pc |-> IF Refused(rc, r) THEN "failed" ELSE "loaded",
                           op |-> rc.op, cmd |-> rc.cmd,
                           mem |-> IF Refused(rc, r) THEN r.cs ELSE Applied(rc, r.cs)]],
                       log |-> Append(race.log, <<"load", p>>)]
    /\ UNCHANGED <<fsFault, disk, pre, last, nCmds>>

RaceSave(p) ==
    /\ race.proc[p].pc = "loaded"
    /\ disk' = WriteConfigSet(disk, race.proc[p].mem, fsFault).disk
    /\ race' = [proc |-> [race.proc EXCEPT ![p].pc = "done"],
                log |-> Append(race.log, <<"save", p>>)]
    /\ UNCHANGED <<fsFault, pre, last, nCmds>>

RaceInit ==
    /\ fsFault = {}
    /\ disk \in {d \in InitDisks : d.exists /\ Len(d.content) = 1 /\ Decode(d.content).err = "nil"}
    /\ pre = disk
    /\ last = NoCmd
    /\ nCmds = 0
    /\ race = NoRace

RaceNext == \E p \in Procs : RaceLoad(p) \/ RaceSave(p)

SpecRace == RaceInit /\ [][RaceNext]_vars

-----------------------------------------------------------------------------
(* What a test sees: a Load before the command and a Load after it *)

\* the file held a config set when the last command started
Stored == pre.exists /\ Decode(pre.content).err = "nil"

\* the file holds a config set now
Loads == disk.exists /\ Decode(disk.content).err = "nil"

Old == Decode(pre.content).cs.Configs

OldCurrent == Decode(pre.content).cs.Current

New == Decode(disk.content).cs.Configs

NewCurrent == Decode(disk.content).cs.Current

Succeeded(op) == last.op = op /\ last.err = "nil"

\* the steps before the name is looked up
EarlySteps == {"home", "open", "read"}

\* profile q is profile p with exactly the flags update command c supplies
PatchedBy(q, p, c) ==
    /\ q.BaseURL = IF c.BaseURL # <<>> THEN URLString(c.BaseURL[1]) ELSE p.BaseURL
    /\ q.FeedURL = IF c.FeedURL # <<>> THEN URLString(c.FeedURL[1]) ELSE p.FeedURL
    /\ q.Auth.Key = IF c.Key # "" THEN c.Key ELSE p.Auth.Key
    /\ q.Auth.Passphrase = IF c.Passphrase # "" THEN c.Passphrase ELSE p.Auth.Passphrase
    /\ q.Auth.Secret = IF c.Secret # "" THEN c.Secret ELSE p.Auth.Secret
    /\ q.ServerIP = IF c.BindAddress # "" THEN c.BindAddress ELSE p.ServerIP
    /\ q.ServerPort = IF c.ServerPort # 0 THEN c.ServerPort ELSE p.ServerPort
    /\ q.ServerSecret = IF c.ServerAuth # "" THEN c.ServerAuth ELSE p.ServerSecret

\* the key an update stores the profile under
FinalName(c) == IF c.Rename # "" THEN c.Rename ELSE c.Name

\* every profile of Old whose name is not in `but` is in New, unchanged
KeptExcept(but) ==
    \A n \in (DOMAIN Old) \ but : n \in DOMAIN New /\ New[n] = Old[n]

-----------------------------------------------------------------------------
(* Claims *)

\* C1: Create with a name that is not in the stored config set succeeds, and
\* a Load afterwards returns every profile stored before, unchanged, and
\* exactly one profile more.  (The statement as claimed; the code breaks it.)
C1_CreateKeepsProfiles ==
    (/\ last.op = "create"
     /\ fsFault = {}
     /\ Stored
     /\ last.name \notin DOMAIN Old)
    => /\ last.err = "nil"
       /\ Loads
       /\ KeptExcept({})
       /\ Cardinality(DOMAIN New) = Cardinality(DOMAIN Old) + 1

\* C2: after a successful Create, Update or Delete the file holds exactly
\* the encoding of the config set that command produced, and decodes to it.
\* (The statement as claimed; the code breaks it.)
C2_FileIsLastEncoding ==
    (last.op # "none" /\ last.err = "nil")
    => /\ disk.exists
       /\ disk.content = <<Encode(last.mem)>>
       /\ Loads
       /\ NewCurrent = last.mem.Current
       /\ New = last.mem.Configs

\* C3: Create with a name that is a key of the stored config set leaves the
\* file as it was, whatever the flags and whatever the filesystem does, and
\* once the name has been looked up the error is the "already exists" one.
C3_CreateConflict ==
    (/\ last.op = "create"
     /\ Stored
     /\ last.name \in DOMAIN Old)
    => /\ disk = pre
       /\ (fsFault \cap (EarlySteps \cup {"close"}) = {}
              => last.err = "ErrAlreadyExists")

\* C3 witness: create --use of an existing name that is not current, refused
C3_Witness ==
    /\ last.op = "create"
    /\ Stored
    /\ last.name \in DOMAIN Old
    /\ last.cmd.Use
    /\ OldCurrent # last.name
    /\ last.err = "ErrAlreadyExists"
    /\ Cardinality(DOMAIN Old) = 2

\* C4: a command that returns an error leaves the file either with exactly
\* what it held before or with the whole encoding of the new config set.
\* (The statement as claimed; the code breaks it.)
C4_AllOrNothing ==
    (last.op # "none" /\ last.err # "nil")
    => \/ disk.content = pre.content
       \/ (disk.exists /\ disk.content = <<Encode(last.mem)>>)

\* C5 as claimed: after a successful Update the profile, under the key it
\* ends up with, has the supplied flags' values in the supplied fields and
\* its prior values in the others, and every other profile is unchanged.
C5_SparsePatchAllOthersKept ==
    Succeeded("update")
    => /\ Loads
       /\ FinalName(last.cmd) \in DOMAIN New
       /\ PatchedBy(New[FinalName(last.cmd)], Old[last.name], last.cmd)
       /\ KeptExcept({last.name})

\* C5 as amended: the same, except that a profile that was stored under the
\* --rename name is replaced by the renamed profile.
C5_SparsePatch ==
    Succeeded("update")
    => /\ Loads
       /\ FinalName(last.cmd) \in DOMAIN New
       /\ PatchedBy(New[FinalName(last.cmd)], Old[last.name], last.cmd)
       /\ KeptExcept({last.name, last.cmd.Rename})
       /\ DOMAIN New \subseteq (DOMAIN Old) \cup {FinalName(last.cmd)}

\* C5 witness: update --key alone on one of two stored profiles: the key is
\* the new one and the passphrase is still the stored one
C5_Witness ==
    /\ Succeeded("update")
    /\ last.cmd.Rename = ""
    /\ last.cmd.Key # ""
    /\ last.cmd.Passphrase = ""
    /\ last.cmd.BaseURL = <<>>
    /\ last.cmd.ServerPort = 0
    /\ Cardinality(DOMAIN Old) = 2
    /\ New[last.name].Auth.Key = last.cmd.Key
    /\ New[last.name].Auth.Key # Old[last.name].Auth.Key
    /\ New[last.name].Auth.Passphrase = Old[last.name].Auth.Passphrase

\* C6: a successful Update --rename new, where new is no other profile's
\* key: the old key is gone (unless new is the old key), the key new holds
\* the old profile with the supplied flags applied, Current is new when --use
\* is given, and the other profiles are unchanged.
C6_Rename ==
    (/\ Succeeded("update")
     /\ last.cmd.Rename # ""
     /\ last.cmd.Rename \notin (DOMAIN Old) \ {last.name})
    => /\ Loads
       /\ DOMAIN New = ((DOMAIN Old) \ {last.name}) \cup {last.cmd.Rename}
       /\ PatchedBy(New[last.cmd.Rename], Old[last.name], last.cmd)
       /\ (last.cmd.Use => NewCurrent = last.cmd.Rename)
       /\ KeptExcept({last.name})

\* C6 witness: update --rename to a fresh name with --use and no other flag,
\* on one of two stored profiles, the other one current
C6_Witness ==
    /\ Succeeded("update")
    /\ last.cmd.Rename \notin (DOMAIN Old) \cup {""}
    /\ last.cmd.Use
    /\ OldCurrent \in (DOMAIN Old) \ {last.name}
    /\ last.name \notin DOMAIN New
    /\ New[last.cmd.Rename] = Old[last.name]
    /\ NewCurrent = last.cmd.Rename

\* C7 as claimed: a successful Create on a config set without profiles (no
\* file, an empty file, or a file whose profiles were all deleted) leaves
\* the directory and the file in place and writes a config set whose Current
\* is the new name; with --use it does so however many profiles there were.
C7_FirstProfileIsCurrent ==
    (/\ Succeeded("create")
     /\ \/ ~pre.exists
        \/ (Stored /\ DOMAIN Old = {})
        \/ last.cmd.Use)
    => /\ disk.dir
       /\ disk.exists
       /\ last.mem.Current = last.name

\* C8: a successful Delete removes the key and nothing else: Current is what
\* it was, even when it names the deleted profile, and the other profiles
\* are unchanged.
C8_DeleteFrame ==
    Succeeded("delete")
    => /\ Loads
       /\ NewCurrent = OldCurrent
       /\ DOMAIN New = (DOMAIN Old) \ {last.name}
       /\ KeptExcept({last.name})

\* C8 witness: the current profile deleted, another one kept
C8_Witness ==
    /\ Succeeded("delete")
    /\ OldCurrent = last.name
    /\ last.name \in DOMAIN Old
    /\ NewCurrent = last.name
    /\ last.name \notin DOMAIN New
    /\ DOMAIN New # {}

\* C9: Delete of a name that is no key of the stored config set, on a sound
\* filesystem, returns no error and the file decodes to the same Current and
\* the same profiles as before.
C9_DeleteAbsent ==
    (/\ last.op = "delete"
     /\ fsFault = {}
     /\ Stored
     /\ last.name \notin DOMAIN Old)
    => /\ last.err = "nil"
       /\ Loads
       /\ NewCurrent = OldCurrent
       /\ New = Old

\* C9 witness: an absent name deleted from a file with profiles and a
\* Current that names none of them
C9_Witness ==
    /\ Succeeded("delete")
    /\ last.name \notin DOMAIN Old
    /\ DOMAIN Old # {}
    /\ OldCurrent \notin DOMAIN Old
    /\ NewCurrent = OldCurrent
    /\ New = Old

\* C10: Update of a name that is no key of the stored config set leaves the
\* file as it was, whatever the flags (--rename and --use included), and once
\* the name has been looked up the error is the "does not exist" one.
C10_UpdateAbsent ==
    (/\ last.op = "update"
     /\ Stored
     /\ last.name \notin DOMAIN Old)
    => /\ disk = pre
       /\ last.err # "nil"
       /\ (fsFault \cap EarlySteps = {} => last.err = "ErrDoesNotExist")

\* C10 witness: update of an absent name with --rename, --use and every flag
C10_Witness ==
    /\ last.op = "update"
    /\ Stored
    /\ DOMAIN Old # {}
    /\ last.name \notin DOMAIN Old
    /\ last.cmd.Rename # ""
    /\ last.cmd.Use
    /\ last.cmd.Key # ""
    /\ last.cmd.ServerPort # 0
    /\ last.err = "ErrDoesNotExist"
    /\ disk = pre

\* C11: Update and Delete run when the config file does not exist return an
\* error and leave the disk as it was: no file is made, no handle is opened
\* (no save is tried).  Unless resolving the home directory or the open
\* itself fails, the error is the not-found one of the load.
C11_MissingFile ==
    (/\ last.op \in {"update", "delete"}
     /\ ~pre.exists)
    => /\ disk = pre
       /\ ~disk.exists
       /\ last.opened = 0
       /\ last.err # "nil"
       /\ (fsFault \cap {"home", "open"} = {} => last.err = "ErrNotExist")

\* C11 witness: a delete refused with the not-found error where the
\* directory is there and the file is not
C11_Witness ==
    /\ last.op = "delete"
    /\ pre.dir
    /\ ~pre.exists
    /\ ~disk.exists
    /\ last.err = "ErrNotExist"

\* C11 witness, the other command: an update with every flag refused with
\* the not-found error where nothing is on disk
C11_WitnessUpdate ==
    /\ last.op = "update"
    /\ pre = NoDisk
    /\ disk = NoDisk
    /\ last.cmd.Key # ""
    /\ last.err = "ErrNotExist"

\* C12 as claimed: every handle Create opened is closed when Create returns,
\* on every path.  (The statement as claimed; the code breaks it.)
C12_CreateClosesHandles ==
    last.op = "create" => last.closed = last.opened

\* C13: on a sound filesystem, Update --rename other, where other is the key
\* of a different stored profile, returns no error; afterwards the key other
\* holds the renamed profile with the supplied flags applied (the profile
\* that was under other is gone), the old key is absent, and there is
\* exactly one profile fewer.
C13_RenameOverwrites ==
    (/\ last.op = "update"
     /\ fsFault = {}
     /\ Stored
     /\ last.name \in DOMAIN Old
     /\ last.cmd.Rename \in (DOMAIN Old) \ {last.name})
    => /\ last.err = "nil"
       /\ Loads
       /\ DOMAIN New = (DOMAIN Old) \ {last.name}
       /\ PatchedBy(New[last.cmd.Rename], Old[last.name], last.cmd)
       /\ Cardinality(DOMAIN New) = Cardinality(DOMAIN Old) - 1

\* C13 witness: alice renamed to bob with no other flag, both stored: bob
\* now holds what alice held, which is not what bob held
C13_Witness ==
    /\ Succeeded("update")
    /\ last.cmd.Rename \in (DOMAIN Old) \ {last.name}
    /\ last.name \in DOMAIN Old
    /\ last.cmd.Key = ""
    /\ New[last.cmd.Rename] = Old[last.name]
    /\ New[last.cmd.Rename] # Old[last.cmd.Rename]
    /\ DOMAIN New = {last.cmd.Rename}

\* C15: the Current a successful command writes differs from the stored one
\* only for a Create on a config set without profiles, a Create --use or an
\* Update --use.  An Update without --use writes the stored Current whatever
\* its other flags (a rename of the current profile included), a Delete
\* writes it too, and so does a Create without --use on a config set with
\* profiles.  For Update and Delete the file decodes to what was written.
C15_CurrentFrame ==
    /\ (last.op # "none" /\ last.err = "nil" /\ last.mem.Current # OldCurrent)
         => \/ (last.op = "create" /\ (last.cmd.Use \/ DOMAIN Old = {}))
            \/ (last.op = "update" /\ last.cmd.Use)
    /\ (Succeeded("update") /\ ~last.cmd.Use)
         => (Loads /\ NewCurrent = OldCurrent)
    /\ Succeeded("delete")
         => (Loads /\ NewCurrent = OldCurrent)
    /\ (Succeeded("create") /\ ~last.cmd.Use /\ DOMAIN Old # {})
         => last.mem.Current = OldCurrent

\* C15 witness: the current profile renamed without --use, with a flag
\* supplied: Current still names the old key, which is no longer there
C15_Witness ==
    /\ Succeeded("update")
    /\ ~last.cmd.Use
    /\ last.cmd.Rename \notin {"", last.name}
    /\ last.cmd.Key # ""
    /\ OldCurrent = last.name
    /\ NewCurrent = last.name
    /\ last.name \notin DOMAIN New
    /\ last.cmd.Rename \in DOMAIN New

\* the last command got as far as writeConfigSet
SaveReached ==
    /\ last.op \in {"update", "delete"}
    /\ Stored
    /\ fsFault \cap EarlySteps = {}
    /\ (last.op = "update" => last.name \in DOMAIN Old)

\* the steps of the encoder: Encode (failing whole or part-way) and its Close
EncodeSteps == {"encode", "partial", "encclose"}

\* C16: writeConfigSet returns the earliest error it meets.  A failed open
\* is returned and nothing is written or opened; a failed encode is returned
\* even when the Close of the file fails too; the Close error is returned
\* only when open and encode succeeded; no error is returned only when open,
\* encode and Close all succeeded.  Once opened, the handle is closed.
C16_SaveErrorOrder ==
    SaveReached
    => /\ "wopen" \in fsFault
            => (last.err = "ErrOpen" /\ disk = pre /\ last.opened = 1)
       /\ ("wopen" \notin fsFault /\ fsFault \cap EncodeSteps # {})
            => (last.err = "ErrEncode" /\ last.opened = 2)
       /\ last.err = "ErrClose"
            => (fsFault \cap ({"wopen"} \cup EncodeSteps) = {}
                /\ disk.content = <<Encode(last.mem)>>)
       /\ (fsFault \cap ({"wopen"} \cup EncodeSteps) = {} /\ "close" \in fsFault)
            => last.err = "ErrClose"
       /\ last.err = "nil"
            => fsFault \cap ({"wopen", "close"} \cup EncodeSteps) = {}
       /\ last.closed = last.opened

\* C16 witness: a save whose Encode and Close both fail returns the encode
\* error, with the handle it opened closed and the file left empty
C16_Witness ==
    /\ SaveReached
    /\ {"encode", "close"} \subseteq fsFault
    /\ last.err = "ErrEncode"
    /\ last.opened = 2
    /\ last.closed = 2
    /\ disk.content = <<>>
    /\ pre.content # <<>>

\* the race is over and both invocations saved
BothSaved == \A p \in Procs : race.proc[p].pc = "done"

\* both loaded before either saved
Overlapped ==
    /\ Len(race.log) = 4
    /\ race.log[1][1] = "load" /\ race.log[2][1] = "load"
    /\ race.log[3][1] = "save" /\ race.log[4][1] = "save"

\* one ran from load to save before the other started
Serial ==
    /\ Len(race.log) = 4
    /\ race.log[1][1] = "load" /\ race.log[2][1] = "save"
    /\ race.log[3][1] = "load" /\ race.log[4][1] = "save"

\* the invocation that saved first, and the one that saved last
Earlier == race.proc[IF Overlapped THEN race.log[3][2] ELSE race.log[2][2]]

Later == race.proc[race.log[4][2]]

Stored0 == Decode(pre.content).cs

\* both are updates with --key alone on two different stored profiles
TwoKeyUpdates ==
    /\ Earlier.op = "update" /\ Later.op = "update"
    /\ Earlier.cmd.Rename = "" /\ Later.cmd.Rename = ""
    /\ Earlier.cmd.Key # "" /\ Later.cmd.Key # ""
    /\ Earlier.cmd.Name # Later.cmd.Name

\* a delete of a stored profile, saved first, and an update of another one
\* that does not rename onto it
DeleteThenUpdate ==
    /\ Earlier.op = "delete" /\ Later.op = "update"
    /\ Earlier.cmd.Name \in DOMAIN Old
    /\ Earlier.cmd.Name \notin {Later.cmd.Name, Later.cmd.Rename}

C14_WitnessSerial ==
    /\ BothSaved
    /\ Serial
    /\ TwoKeyUpdates
    /\ New[Earlier.cmd.Name].Auth.Key = Earlier.cmd.Key
    /\ New[Later.cmd.Name].Auth.Key = Later.cmd.Key

====
